---- MODULE Spec2Model ----
(***************************************************************************)
(* Model of the hgraph Hypergraph store (src/src/lib.rs): the dual index   *)
(* incidence_list / edge_list and the public mutations that maintain it.   *)
(*                                                                         *)
(* Nodes are small positive integers, weights the integers 0..MaxWeight    *)
(* (the code's f64 weights are only stored, copied and compared).          *)
(* compute_edge_id is a seeded 64-bit hash of the node sequence; it is     *)
(* modelled as a collision-free positional encoding of the sequence, so    *)
(* that the edge table is really keyed by ids and not by sequences.        *)
(***************************************************************************)
EXTENDS Integers, Sequences, FiniteSets, TLC

\* ---------------------------------------------------------------- bounds
NumNodes == 2
NumAllNodes == 3
NumVisitNodes == 4
MaxLen == 2
MaxVisitLen == 3
MaxDepth == 2
MaxWeight == 1
MaxEdges == 2
MaxBatch == 2
MaxStepEdges == 3

\* the nodes the mutations are called with
Node == 1..NumNodes
\* the nodes the constructors and the queries are called with
AnyNode == 1..(IF NumAllNodes > NumNodes THEN NumAllNodes ELSE NumNodes)
Weight == 0..MaxWeight

RECURSIVE SeqsUpTo(_, _)
SeqsUpTo(S, n) ==
  IF n = 0 THEN {<<>>}
  ELSE LET shorter == SeqsUpTo(S, n - 1)
       IN shorter \cup {Append(s, x) : s \in {t \in shorter : Len(t) = n - 1}, x \in S}

\* the node sequences the mutations are called with
Edges == SeqsUpTo(Node, MaxLen)
\* the node sequences the constructors are called with
AnyEdges == SeqsUpTo(AnyNode, MaxLen)
\* the nodes and node sequences of the hypergraphs the traversals are compared on
VisitNode == 1..NumVisitNodes
VisitEdges == SeqsUpTo(VisitNode, MaxVisitLen)

Range(s) == {s[i] : i \in 1..Len(s)}

\* ----------------------------------------------------------- state
VARIABLES weighted, incidence_list, edge_list, last, old, visit

vars == <<weighted, incidence_list, edge_list, last, old, visit>>

\* the hypergraph as one value, as the methods receive it (&self / &mut self)
self == [weighted |-> weighted, incidence_list |-> incidence_list, edge_list |-> edge_list]

\* ----------------------------------------------------------- helpers
RECURSIVE compute_edge_id(_)
compute_edge_id(edge) ==
  IF edge = <<>> THEN 1
  ELSE compute_edge_id(SubSeq(edge, 1, Len(edge) - 1)) * (Cardinality(Node \cup AnyNode \cup VisitNode) + 1) + edge[Len(edge)]

Hyperedge(nodes, weight) == [nodes |-> nodes, weight |-> weight]

new(w) == [weighted |-> w, incidence_list |-> <<>>, edge_list |-> <<>>]

Insert(map, k, v) == [x \in DOMAIN map \cup {k} |-> IF x = k THEN v ELSE map[x]]

Remove(map, k) == [x \in DOMAIN map \ {k} |-> map[x]]

\* the loop of compute_add_edge over the nodes of the edge, from position i
RECURSIVE add_incidence(_, _, _, _)
add_incidence(inc, edge, edge_id, i) ==
  IF i > Len(edge) THEN inc
  ELSE LET node == edge[i]
           set == IF node \in DOMAIN inc THEN inc[node] \cup {edge_id} ELSE {edge_id}
       IN add_incidence(Insert(inc, node, set), edge, edge_id, i + 1)

\* compute_add_edge as it would be if an existing edge kept its weight
compute_add_edge_keeps_weight(hg, edge, weight) ==
  LET edge_id == compute_edge_id(edge)
  IN IF edge_id \notin DOMAIN hg.edge_list
     THEN [hg |-> [hg EXCEPT !.edge_list = Insert(hg.edge_list, edge_id, Hyperedge(edge, weight)),
                             !.incidence_list = add_incidence(hg.incidence_list, edge, edge_id, 1)],
           ret |-> TRUE]
     ELSE [hg |-> hg, ret |-> FALSE]

\* compute_add_edge as it would be if the incidence entry of each node were
\* inserted anew (insert instead of entry().and_modify().or_insert_with())
compute_add_edge_overwrites_incidence(hg, edge, weight) ==
  LET edge_id == compute_edge_id(edge)
  IN IF edge_id \notin DOMAIN hg.edge_list
     THEN [hg |-> [hg EXCEPT !.edge_list = Insert(hg.edge_list, edge_id, Hyperedge(edge, weight)),
                             !.incidence_list = [n \in DOMAIN hg.incidence_list \cup Range(edge) |->
                                                   IF n \in Range(edge) THEN {edge_id}
                                                   ELSE hg.incidence_list[n]]],
           ret |-> TRUE]
     ELSE [hg |-> [hg EXCEPT !.edge_list[edge_id].weight = weight],
           ret |-> FALSE]

compute_add_edge(hg, edge, weight) ==
  LET edge_id == compute_edge_id(edge)
  IN IF edge_id \notin DOMAIN hg.edge_list
     THEN [hg |-> [hg EXCEPT !.edge_list = Insert(hg.edge_list, edge_id, Hyperedge(edge, weight)),
                             !.incidence_list = add_incidence(hg.incidence_list, edge, edge_id, 1)],
           ret |-> TRUE]
     ELSE [hg |-> [hg EXCEPT !.edge_list[edge_id].weight = weight],
           ret |-> FALSE]

\* ----------------------------------------------------------- queries
num_nodes(hg) == Cardinality(DOMAIN hg.incidence_list)

num_edges(hg) == Cardinality(DOMAIN hg.edge_list)

check_edge(hg, edge) == compute_edge_id(edge) \in DOMAIN hg.edge_list

check_node(hg, node) == node \in DOMAIN hg.incidence_list

\* Some(w) is modelled as <<w>>, None as <<>>
get_weight(hg, edge) ==
  LET edge_id == compute_edge_id(edge)
  IN IF edge_id \in DOMAIN hg.edge_list THEN <<hg.edge_list[edge_id].weight>> ELSE <<>>

\* ----------------------------------------------------------- mutations
add_node(hg, node) ==
  IF node \notin DOMAIN hg.incidence_list
  THEN [hg |-> [hg EXCEPT !.incidence_list = Insert(hg.incidence_list, node, {})], ret |-> TRUE]
  ELSE [hg |-> hg, ret |-> FALSE]

RECURSIVE add_nodes_from(_, _, _, _)
add_nodes_from(hg, nodes, i, res) ==
  IF i > Len(nodes) THEN [hg |-> hg, ret |-> res]
  ELSE LET r == add_node(hg, nodes[i])
       IN add_nodes_from(r.hg, nodes, i + 1, res /\ r.ret)

add_nodes(hg, nodes) == add_nodes_from(hg, nodes, 1, TRUE)

add_edge(hg, edge) == compute_add_edge(hg, edge, 0)

add_edge_weighted(hg, edge, weight) ==
  compute_add_edge(hg, edge, IF ~hg.weighted THEN 0 ELSE weight)

RECURSIVE add_edges_from(_, _, _, _)
add_edges_from(hg, edges, i, res) ==
  IF i > Len(edges) THEN [hg |-> hg, ret |-> res]
  ELSE LET r == compute_add_edge(hg, edges[i], 0)
       IN add_edges_from(r.hg, edges, i + 1, res /\ r.ret)

add_edges(hg, edges) == add_edges_from(hg, edges, 1, TRUE)

\* index counts from 0 in the code; weights[index] is weights[index + 1] here
RECURSIVE add_edges_weighted_from(_, _, _, _, _)
add_edges_weighted_from(hg, edges, weights, index, res) ==
  IF index >= Len(edges) THEN [hg |-> hg, ret |-> res]
  ELSE LET next == IF index < Len(weights) THEN weights[index + 1] ELSE 0
           r == compute_add_edge(hg, edges[index + 1], next)
       IN add_edges_weighted_from(r.hg, edges, weights, index + 1, res /\ r.ret)

add_edges_weighted(hg, edges, weights) == add_edges_weighted_from(hg, edges, weights, 0, TRUE)

\* remove_edge as it would be if the edge record were left in edge_list
remove_edge_keeps_record(hg, edge) ==
  LET edge_id == compute_edge_id(edge)
  IN IF edge_id \notin DOMAIN hg.edge_list
     THEN [hg |-> hg, ret |-> FALSE]
     ELSE [hg |-> [hg EXCEPT !.incidence_list = [n \in DOMAIN hg.incidence_list |->
                                                   hg.incidence_list[n] \ {edge_id}]],
           ret |-> TRUE]

\* remove_edge as it would be if nodes left without edges were dropped
remove_edge_drops_isolated(hg, edge) ==
  LET edge_id == compute_edge_id(edge)
  IN IF edge_id \notin DOMAIN hg.edge_list
     THEN [hg |-> hg, ret |-> FALSE]
     ELSE [hg |-> [hg EXCEPT !.incidence_list =
                               [n \in {m \in DOMAIN hg.incidence_list :
                                         hg.incidence_list[m] \ {edge_id} # {}} |->
                                  hg.incidence_list[n] \ {edge_id}],
                             !.edge_list = Remove(hg.edge_list, edge_id)],
           ret |-> TRUE]

\* remove_edge as it would be without the contains_key test
remove_edge_unguarded(hg, edge) ==
  LET edge_id == compute_edge_id(edge)
  IN [hg |-> [hg EXCEPT !.incidence_list = [n \in DOMAIN hg.incidence_list |->
                                              hg.incidence_list[n] \ {edge_id}],
                        !.edge_list = Remove(hg.edge_list, edge_id)],
      ret |-> TRUE]

remove_edge(hg, edge) ==
  LET edge_id == compute_edge_id(edge)
  IN IF edge_id \notin DOMAIN hg.edge_list
     THEN [hg |-> hg, ret |-> FALSE]
     ELSE [hg |-> [hg EXCEPT !.incidence_list = [n \in DOMAIN hg.incidence_list |->
                                                   hg.incidence_list[n] \ {edge_id}],
                             !.edge_list = Remove(hg.edge_list, edge_id)],
           ret |-> TRUE]

RECURSIVE remove_edges_from(_, _, _, _)
remove_edges_from(hg, edges, i, res) ==
  IF i > Len(edges) THEN [hg |-> hg, ret |-> res]
  ELSE LET r == remove_edge(hg, edges[i])
       IN remove_edges_from(r.hg, edges, i + 1, res /\ r.ret)

remove_edges(hg, edges) == remove_edges_from(hg, edges, 1, TRUE)

\* the orders in which an AHashSet may hand out its elements
Orderings(S) == {s \in [1..Cardinality(S) -> S] : Range(s) = S}

\* the loop of remove_node over the removed incidence set, iterated in the
\* order `edges`; edge_list.get(edge_id).unwrap() is the function application
RECURSIVE remove_node_from(_, _, _, _)
remove_node_from(hg, node, edges, i) ==
  IF i > Len(edges) THEN hg
  ELSE LET edge_now == hg.edge_list[edges[i]]
           removed == remove_edge(hg, edge_now.nodes).hg
           retained == SelectSeq(edge_now.nodes, LAMBDA x : x # node)
       IN remove_node_from(add_edge_weighted(removed, retained, edge_now.weight).hg,
                           node, edges, i + 1)

\* the loop of remove_node as it would be if an edge left without nodes
\* were not inserted again
RECURSIVE remove_node_from_skips_empty(_, _, _, _)
remove_node_from_skips_empty(hg, node, edges, i) ==
  IF i > Len(edges) THEN hg
  ELSE LET edge_now == hg.edge_list[edges[i]]
           removed == remove_edge(hg, edge_now.nodes).hg
           retained == SelectSeq(edge_now.nodes, LAMBDA x : x # node)
       IN remove_node_from_skips_empty(
            IF retained = <<>> THEN removed
            ELSE add_edge_weighted(removed, retained, edge_now.weight).hg,
            node, edges, i + 1)

\* remove_node as it would be if the incident edges were not re-inserted
remove_node_drops_edges(hg, node, order) ==
  IF node \notin DOMAIN hg.incidence_list
  THEN [hg |-> hg, ret |-> FALSE]
  ELSE [hg |-> remove_edges([hg EXCEPT !.incidence_list = Remove(hg.incidence_list, node)],
                            [i \in 1..Len(order) |-> hg.edge_list[order[i]].nodes]).hg,
        ret |-> TRUE]

\* remove_node as it would be if an edge left without nodes were dropped
remove_node_skips_empty(hg, node, order) ==
  IF node \notin DOMAIN hg.incidence_list
  THEN [hg |-> hg, ret |-> FALSE]
  ELSE [hg |-> remove_node_from_skips_empty(
                 [hg EXCEPT !.incidence_list = Remove(hg.incidence_list, node)], node, order, 1),
        ret |-> TRUE]

\* `order` is the iteration order of the incidence set of the node
remove_node(hg, node, order) ==
  IF node \notin DOMAIN hg.incidence_list
  THEN [hg |-> hg, ret |-> FALSE]
  ELSE [hg |-> remove_node_from([hg EXCEPT !.incidence_list = Remove(hg.incidence_list, node)],
                                node, order, 1),
        ret |-> TRUE]

\* strong_remove_node as it would be without the sweep of the other
\* incidence sets
strong_remove_node_no_sweep(hg, node) ==
  IF node \notin DOMAIN hg.incidence_list
  THEN [hg |-> hg, ret |-> FALSE]
  ELSE LET edges == hg.incidence_list[node]
       IN [hg |-> [hg EXCEPT !.incidence_list = Remove(hg.incidence_list, node),
                             !.edge_list = [id \in DOMAIN hg.edge_list \ edges |-> hg.edge_list[id]]],
           ret |-> TRUE]

\* strong_remove_node as it would be if the edge records were left in edge_list
strong_remove_node_keeps_edges(hg, node) ==
  IF node \notin DOMAIN hg.incidence_list
  THEN [hg |-> hg, ret |-> FALSE]
  ELSE LET edges == hg.incidence_list[node]
           inc == Remove(hg.incidence_list, node)
       IN [hg |-> [hg EXCEPT !.incidence_list = [n \in DOMAIN inc |-> inc[n] \ edges]],
           ret |-> TRUE]

strong_remove_node(hg, node) ==
  IF node \notin DOMAIN hg.incidence_list
  THEN [hg |-> hg, ret |-> FALSE]
  ELSE LET edges == hg.incidence_list[node]
           inc == Remove(hg.incidence_list, node)
       IN [hg |-> [hg EXCEPT !.incidence_list = [n \in DOMAIN inc |-> inc[n] \ edges],
                             !.edge_list = [id \in DOMAIN hg.edge_list \ edges |-> hg.edge_list[id]]],
           ret |-> TRUE]

\* set_weight as it would be if it read the weight after writing it
set_weight_returns_new(hg, edge, new_weight) ==
  LET edge_id == compute_edge_id(edge)
  IN IF edge_id \in DOMAIN hg.edge_list
     THEN [hg |-> [hg EXCEPT !.edge_list[edge_id].weight = new_weight],
           ok |-> TRUE, val |-> new_weight]
     ELSE [hg |-> hg, ok |-> FALSE, val |-> 0]

\* Ok(prev) is ok = TRUE with val = prev; Err(()) is ok = FALSE
set_weight(hg, edge, new_weight) ==
  LET edge_id == compute_edge_id(edge)
  IN IF edge_id \in DOMAIN hg.edge_list
     THEN [hg |-> [hg EXCEPT !.edge_list[edge_id].weight = new_weight],
           ok |-> TRUE, val |-> hg.edge_list[edge_id].weight]
     ELSE [hg |-> hg, ok |-> FALSE, val |-> 0]

\* clear as it would be if only edge_list were cleared
clear_keeps_nodes(hg) == [hg EXCEPT !.edge_list = <<>>]

clear(hg) == [hg EXCEPT !.incidence_list = <<>>, !.edge_list = <<>>]

\* the results remove_node can produce, one per iteration order of the set
remove_node_results(hg, node) ==
  IF node \notin DOMAIN hg.incidence_list
  THEN {remove_node(hg, node, <<>>)}
  ELSE {remove_node(hg, node, order) : order \in Orderings(hg.incidence_list[node])}

RECURSIVE remove_nodes_from(_, _, _)
remove_nodes_from(hgs, nodes, i) ==
  IF i > Len(nodes) THEN hgs
  ELSE remove_nodes_from(UNION {{r.hg : r \in remove_node_results(hg, nodes[i])} : hg \in hgs},
                         nodes, i + 1)

\* the set of states remove_nodes can leave, over the iteration orders
remove_nodes(hg, nodes) == remove_nodes_from({hg}, nodes, 1)

RECURSIVE strong_remove_nodes_from(_, _, _)
strong_remove_nodes_from(hg, nodes, i) ==
  IF i > Len(nodes) THEN hg
  ELSE strong_remove_nodes_from(strong_remove_node(hg, nodes[i]).hg, nodes, i + 1)

strong_remove_nodes(hg, nodes) == strong_remove_nodes_from(hg, nodes, 1)

\* ----------------------------------------------------------- constructors
RECURSIVE from_loop(_, _, _)
from_loop(result, _edge_list, i) ==
  IF i > Len(_edge_list) THEN result
  ELSE LET edge == _edge_list[i]
           edge_id == compute_edge_id(edge)
       IN from_loop(IF edge_id \notin DOMAIN result.edge_list
                    THEN compute_add_edge(result, edge, 0).hg
                    ELSE result,
                    _edge_list, i + 1)

from(_edge_list) == from_loop(new(FALSE), _edge_list, 1)

\* i is the position in _edge_list (from 1), index_weigth the 0-based index
\* into weights, which advances only when a weight is taken
RECURSIVE from_weighted_loop(_, _, _, _, _)
from_weighted_loop(result, _edge_list, weights, i, index_weigth) ==
  IF i > Len(_edge_list) THEN result
  ELSE LET taken == index_weigth + 1 < Len(weights)
           next == IF taken THEN weights[index_weigth + 1] ELSE 0
       IN from_weighted_loop(compute_add_edge(result, _edge_list[i], next).hg,
                             _edge_list, weights, i + 1,
                             IF taken THEN index_weigth + 1 ELSE index_weigth)

from_weighted(_edge_list, weights) == from_weighted_loop(new(TRUE), _edge_list, weights, 1, 0)

\* ----------------------------------------------------------- filtered queries
\* Option: None is <<>>, Some(x) is <<x>>.  Result: Ok(v) is ok = TRUE with
\* val = v, Err(message) is ok = FALSE.
None == <<>>

Some(x) == <<x>>

Ok(v) == [ok |-> TRUE, val |-> v]

Err == [ok |-> FALSE, val |-> <<>>]

\* the filter as it would be if an order were taken as a size
filter_of_unshifted(order, size) == IF order # None THEN order[1] ELSE size[1]

\* `let filter = if let Some(val) = order { val + 1 } else { size.unwrap() }`
filter_of(order, size) == IF order # None THEN order[1] + 1 ELSE size[1]

\* the ids of the edges of ids that the filter lets through
with_filter(hg, ids, filter, up_to) ==
  {id \in ids : IF up_to THEN Len(hg.edge_list[id].nodes) <= filter
                ELSE Len(hg.edge_list[id].nodes) = filter}

\* keys() of the incidence map: a Vec in the map's iteration order, so the
\* value is the set of the Vecs the call can return
get_nodes(hg) == Orderings(DOMAIN hg.incidence_list)

compute_vec_to_set(array) == Range(array)

\* the values get_weights can return, one per iteration order of edge_list
get_weights(hg) ==
  IF DOMAIN hg.edge_list = {} THEN {None}
  ELSE {Some([i \in 1..Len(o) |-> hg.edge_list[o[i]].weight]) : o \in Orderings(DOMAIN hg.edge_list)}

\* the values get_orders can return; the order of the empty edge is -1
get_orders(hg) ==
  IF DOMAIN hg.edge_list = {} THEN {None}
  ELSE {Some([i \in 1..Len(o) |-> Len(hg.edge_list[o[i]].nodes) - 1]) :
          o \in Orderings(DOMAIN hg.edge_list)}

\* the values get_sizes can return
get_sizes(hg) ==
  IF DOMAIN hg.edge_list = {} THEN {None}
  ELSE {Some([i \in 1..Len(o) |-> Len(hg.edge_list[o[i]].nodes)]) :
          o \in Orderings(DOMAIN hg.edge_list)}

\* the values get_edges can return
get_edges(hg) ==
  IF DOMAIN hg.edge_list = {} THEN {None}
  ELSE {Some([i \in 1..Len(o) |-> hg.edge_list[o[i]].nodes]) :
          o \in Orderings(DOMAIN hg.edge_list)}

\* Some(length) when every edge has the length of the first one met, None
\* at the first edge of another length, Some(0) without edges
is_uniform(hg) ==
  IF num_edges(hg) = 0 THEN Some(0)
  ELSE LET lengths == {Len(hg.edge_list[id].nodes) : id \in DOMAIN hg.edge_list}
       IN IF Cardinality(lengths) = 1 THEN Some(CHOOSE length \in lengths : TRUE) ELSE None

\* num_edges_with as it would be if it counted every edge when no filter is given
num_edges_with_counts_all(hg, order, size, up_to) ==
  IF order # None /\ size # None THEN Err
  ELSE IF order = None /\ size = None THEN Ok(num_edges(hg))
  ELSE Ok(Cardinality(with_filter(hg, DOMAIN hg.edge_list, filter_of(order, size), up_to)))

num_edges_with(hg, order, size, up_to) ==
  IF order # None /\ size # None THEN Err
  ELSE IF order = None /\ size = None THEN Err
  ELSE Ok(Cardinality(with_filter(hg, DOMAIN hg.edge_list, filter_of(order, size), up_to)))

\* the values get_weights_with can return, one per iteration order of edge_list
get_weights_with(hg, order, size, up_to) ==
  IF order # None /\ size # None THEN {Err}
  ELSE IF order = None /\ size = None THEN {Err}
  ELSE LET ids == with_filter(hg, DOMAIN hg.edge_list, filter_of(order, size), up_to)
       IN IF ids = {} THEN {Ok(None)}
          ELSE {Ok(Some([i \in 1..Len(o) |-> hg.edge_list[o[i]].weight])) : o \in Orderings(ids)}

\* the values get_edges_with can return, one per iteration order of edge_list
get_edges_with(hg, order, size, up_to) ==
  IF order # None /\ size # None THEN {Err}
  ELSE IF order = None /\ size = None THEN {Err}
  ELSE LET ids == with_filter(hg, DOMAIN hg.edge_list, filter_of(order, size), up_to)
       IN IF ids = {} THEN {Ok(None)}
          ELSE {Ok(Some([i \in 1..Len(o) |-> hg.edge_list[o[i]].nodes])) : o \in Orderings(ids)}

\* the incident edges of node that get_neighbors, get_incident_edges and
\* is_isolated look at: all of them without a filter, those of length
\* filter with one
incident_with(hg, node, order, size) ==
  IF order = None /\ size = None THEN hg.incidence_list[node]
  ELSE with_filter(hg, hg.incidence_list[node], filter_of(order, size), FALSE)

\* get_neighbors as it would be if it looked the node up before the filters
get_neighbors_node_first(hg, node, order, size) ==
  IF node \notin DOMAIN hg.incidence_list THEN {Ok(None)}
  ELSE IF order # None /\ size # None THEN {Err}
  ELSE LET res == UNION {Range(hg.edge_list[edge_id].nodes) :
                           edge_id \in incident_with(hg, node, order, size)} \ {node}
       IN {Ok(Some(v)) : v \in Orderings(res)}

\* get_neighbors as it would be without res.remove(&node)
get_neighbors_keeps_node(hg, node, order, size) ==
  IF order # None /\ size # None THEN {Err}
  ELSE IF node \notin DOMAIN hg.incidence_list THEN {Ok(None)}
  ELSE LET res == UNION {Range(hg.edge_list[edge_id].nodes) :
                           edge_id \in incident_with(hg, node, order, size)}
       IN {Ok(Some(v)) : v \in Orderings(res)}

\* get_neighbors as it would be if, with both filters, it went by the order
get_neighbors_prefers_order(hg, node, order, size) ==
  IF node \notin DOMAIN hg.incidence_list THEN {Ok(None)}
  ELSE LET res == UNION {Range(hg.edge_list[edge_id].nodes) :
                           edge_id \in incident_with(hg, node, order,
                                                     IF order # None THEN None ELSE size)} \ {node}
       IN {Ok(Some(v)) : v \in Orderings(res)}

\* the values get_neighbors can return: res is the AHashSet of the code, and
\* the Vec collected from it comes in one of its iteration orders
get_neighbors(hg, node, order, size) ==
  IF order # None /\ size # None THEN {Err}
  ELSE IF node \notin DOMAIN hg.incidence_list THEN {Ok(None)}
  ELSE LET res == UNION {Range(hg.edge_list[edge_id].nodes) :
                           edge_id \in incident_with(hg, node, order, size)} \ {node}
       IN {Ok(Some(v)) : v \in Orderings(res)}

\* the values get_incident_edges can return, one per iteration order of the
\* incidence set
get_incident_edges(hg, node, order, size) ==
  IF order # None /\ size # None THEN {Err}
  ELSE IF node \notin DOMAIN hg.incidence_list THEN {Ok(None)}
  ELSE {Ok(Some([i \in 1..Len(o) |-> hg.edge_list[o[i]].nodes])) :
          o \in Orderings(incident_with(hg, node, order, size))}

\* the loops return Ok(Some(false)) at the first incident edge that passes
\* the test, Ok(Some(true)) when none does
is_isolated(hg, node, order, size) ==
  IF order # None /\ size # None THEN Err
  ELSE IF node \notin DOMAIN hg.incidence_list THEN Ok(None)
  ELSE IF order = None /\ size = None
  THEN Ok(Some(~\E edge_id \in hg.incidence_list[node] :
                  LET nodes == hg.edge_list[edge_id].nodes
                  IN Len(nodes) > 1 \/ (Len(nodes) = 1 /\ nodes[1] # node)))
  ELSE LET filter == filter_of(order, size)
       IN Ok(Some(~\E edge_id \in hg.incidence_list[node] :
                     LET nodes == hg.edge_list[edge_id].nodes
                     IN Len(nodes) = filter /\ (filter > 1 \/ (filter = 1 /\ nodes[1] # node))))

\* the values isolated_nodes can return, one per iteration order of the keys
isolated_nodes(hg, order, size) ==
  IF order # None /\ size # None THEN {Err}
  ELSE {Ok(v) : v \in Orderings({node \in DOMAIN hg.incidence_list :
                                   is_isolated(hg, node, order, size) = Ok(Some(TRUE))})}

\* ----------------------------------------------------------- visits (visits.rs)
\* the `for neighbor in neighbors.iter()` loop of _bfs, from position i
RECURSIVE bfs_push(_, _, _, _, _)
bfs_push(queue, visited, neighbors, depth, i) ==
  IF i > Len(neighbors) THEN [queue |-> queue, visited |-> visited]
  ELSE IF neighbors[i] \notin visited
  THEN bfs_push(Append(queue, <<neighbors[i], depth + 1>>), visited \cup {neighbors[i]},
                neighbors, depth, i + 1)
  ELSE bfs_push(queue, visited, neighbors, depth, i + 1)

\* the while loop of _bfs as it would be with `depth <= max`
RECURSIVE bfs_loop_one_deeper(_, _, _, _, _, _)
bfs_loop_one_deeper(hg, queue, visited, max_depth, order, size) ==
  IF queue = <<>> THEN {visited}
  ELSE LET now == Head(queue)[1]
           depth == Head(queue)[2]
           rest == Tail(queue)
       IN IF max_depth = None \/ depth <= max_depth[1]
          THEN UNION {IF r.ok /\ r.val # None
                      THEN LET p == bfs_push(rest, visited, r.val[1], depth, 1)
                           IN bfs_loop_one_deeper(hg, p.queue, p.visited, max_depth, order, size)
                      ELSE bfs_loop_one_deeper(hg, rest, visited, max_depth, order, size) :
                        r \in get_neighbors(hg, now, order, size)}
          ELSE bfs_loop_one_deeper(hg, rest, visited, max_depth, order, size)

\* the while loop of _bfs: the visited sets it can end with, over the orders
\* in which get_neighbors hands out the neighbours
RECURSIVE bfs_loop(_, _, _, _, _, _)
bfs_loop(hg, queue, visited, max_depth, order, size) ==
  IF queue = <<>> THEN {visited}
  ELSE LET now == Head(queue)[1]
           depth == Head(queue)[2]
           rest == Tail(queue)
       IN IF max_depth = None \/ depth < max_depth[1]
          THEN UNION {IF r.ok /\ r.val # None
                      THEN LET p == bfs_push(rest, visited, r.val[1], depth, 1)
                           IN bfs_loop(hg, p.queue, p.visited, max_depth, order, size)
                      ELSE bfs_loop(hg, rest, visited, max_depth, order, size) :
                        r \in get_neighbors(hg, now, order, size)}
          ELSE bfs_loop(hg, rest, visited, max_depth, order, size)

\* _bfs as it would be with `depth <= max`
_bfs_one_deeper(hg, start, max_depth, order, size) ==
  IF check_node(hg, start)
  THEN bfs_loop_one_deeper(hg, <<<<start, 0>>>>, {start}, max_depth, order, size)
  ELSE {{}}

\* the sets _bfs can return
_bfs(hg, start, max_depth, order, size) ==
  IF check_node(hg, start)
  THEN bfs_loop(hg, <<<<start, 0>>>>, {start}, max_depth, order, size)
  ELSE {{}}

\* compute_dfs: the visited sets it can leave when called with the set
\* visited, over the orders in which get_neighbors hands out the neighbours;
\* dfs_each is its `for neighbor in neighbors.iter()` loop, from position i,
\* on each of the visited sets vs that the calls before it can have left
RECURSIVE compute_dfs(_, _, _, _, _, _, _)
RECURSIVE dfs_each(_, _, _, _, _, _, _, _)
compute_dfs(hg, node, max_depth, depth, order, size, visited) ==
  IF node \in visited THEN {visited}
  ELSE IF max_depth = None \/ depth < max_depth[1]
  THEN UNION {IF r.ok /\ r.val # None
              THEN dfs_each(hg, r.val[1], 1, max_depth, depth, order, size,
                            {visited \cup {node}})
              ELSE {visited \cup {node}} :
                r \in get_neighbors(hg, node, order, size)}
  ELSE {visited \cup {node}}

dfs_each(hg, neighbors, i, max_depth, depth, order, size, vs) ==
  IF i > Len(neighbors) THEN vs
  ELSE dfs_each(hg, neighbors, i + 1, max_depth, depth, order, size,
                UNION {compute_dfs(hg, neighbors[i], max_depth, depth + 1, order, size, visited) :
                         visited \in vs})

\* _dfs as it would be if start were marked visited before compute_dfs
_dfs_marks_start(hg, start, max_depth, order, size) ==
  IF check_node(hg, start)
  THEN compute_dfs(hg, start, max_depth, 0, order, size, {start})
  ELSE {{}}

\* the sets _dfs can return
_dfs(hg, start, max_depth, order, size) ==
  IF check_node(hg, start)
  THEN compute_dfs(hg, start, max_depth, 0, order, size, {})
  ELSE {{}}

\* ----------------------------------------------------------- components (cc.rs)
\* the for_each of ccs as it would be without the `visited` test
RECURSIVE ccs_loop_revisits(_, _, _, _, _)
ccs_loop_revisits(hg, nodes, i, visited, cc) ==
  IF i > Len(nodes) THEN {cc}
  ELSE UNION {ccs_loop_revisits(hg, nodes, i + 1, visited \cup res, Append(cc, res)) :
                res \in _bfs(hg, nodes[i], None, None, None)}

\* the for_each of ccs over get_nodes(), from position i; order and size
\* are not handed to _bfs
RECURSIVE ccs_loop(_, _, _, _, _)
ccs_loop(hg, nodes, i, visited, cc) ==
  IF i > Len(nodes) THEN {cc}
  ELSE IF nodes[i] \notin visited
  THEN UNION {ccs_loop(hg, nodes, i + 1, visited \cup res, Append(cc, res)) :
                res \in _bfs(hg, nodes[i], None, None, None)}
  ELSE ccs_loop(hg, nodes, i + 1, visited, cc)

\* ccs as it would be without the `visited` test
ccs_revisits(hg, order, size) ==
  IF order # None /\ size # None THEN {Err}
  ELSE {Ok(cc) : cc \in UNION {ccs_loop_revisits(hg, nodes, 1, {}, <<>>) : nodes \in get_nodes(hg)}}

\* the values ccs can return: a Vec of components in the order in which
\* the nodes are met
ccs(hg, order, size) ==
  IF order # None /\ size # None THEN {Err}
  ELSE {Ok(cc) : cc \in UNION {ccs_loop(hg, nodes, 1, {}, <<>>) : nodes \in get_nodes(hg)}}

node_cc(hg, node, order, size) ==
  IF order # None /\ size # None THEN {Err}
  ELSE {Ok(res) : res \in _bfs(hg, node, None, order, size)}

num_ccs(hg, order, size) ==
  {IF r.ok THEN Ok(Len(r.val)) ELSE Err : r \in ccs(hg, order, size)}

\* the for_each of largest_cc: the first component of the largest size
RECURSIVE largest_cc_loop(_, _, _, _)
largest_cc_loop(_ccs, i, res, res_len) ==
  IF i > Len(_ccs) THEN res
  ELSE IF Cardinality(_ccs[i]) > res_len
  THEN largest_cc_loop(_ccs, i + 1, _ccs[i], Cardinality(_ccs[i]))
  ELSE largest_cc_loop(_ccs, i + 1, res, res_len)

largest_cc(hg, order, size) ==
  {IF r.ok THEN Ok(largest_cc_loop(r.val, 1, {}, 0)) ELSE Err : r \in ccs(hg, order, size)}

largest_cc_size(hg, order, size) ==
  {IF r.ok THEN Ok(Cardinality(r.val)) ELSE Err : r \in largest_cc(hg, order, size)}

is_connected(hg, order, size) ==
  {IF r.ok THEN Ok(Len(r.val) <= 1) ELSE Err : r \in ccs(hg, order, size)}

\* ----------------------------------------------------------- subhypergraphs
\* the loops of subhypergraph and subhypergraph_by_orders that copy the
\* selected edges of hg into res, in the order ids
RECURSIVE copy_edges(_, _, _, _)
copy_edges(res, hg, ids, i) ==
  IF i > Len(ids) THEN res
  ELSE LET edge == hg.edge_list[ids[i]]
       IN copy_edges(add_edge_weighted(res, edge.nodes, edge.weight).hg, hg, ids, i + 1)

\* the values subhypergraph can return, one per iteration order of edge_list
subhypergraph(hg, nodes) ==
  LET res == add_nodes(new(hg.weighted), nodes).hg
      nodes_as_set == compute_vec_to_set(nodes)
      ids == {id \in DOMAIN hg.edge_list :
                compute_vec_to_set(hg.edge_list[id].nodes) \subseteq nodes_as_set}
  IN {copy_edges(res, hg, o, 1) : o \in Orderings(ids)}

\* orders and sizes are Option<&Vec<usize>>: None or Some(list)
subhypergraph_by_orders(hg, orders, sizes, keep_nodes) ==
  IF orders = None /\ sizes = None THEN {Err}
  ELSE IF orders # None /\ sizes # None THEN {Err}
  ELSE LET filter_set == IF orders # None THEN {x + 1 : x \in Range(orders[1])}
                         ELSE Range(sizes[1])
           kept == IF keep_nodes
                   THEN {add_nodes(new(hg.weighted), nodes).hg : nodes \in get_nodes(hg)}
                   ELSE {new(hg.weighted)}
           ids == {id \in DOMAIN hg.edge_list : Len(hg.edge_list[id].nodes) \in filter_set}
       IN {Ok(copy_edges(res, hg, o, 1)) : res \in kept, o \in Orderings(ids)}

\* ----------------------------------------------------------- the state machine
\* A behaviour is a sequence of calls on one hypergraph, starting from
\* Hypergraph::new(weighted).  The last call of a behaviour may be observed:
\* `last` then holds its name, arguments and result, and `old` the hypergraph
\* it was called on.  Calls before it leave last = NoCall.
Call(op, edge, node, weight, ret, val) ==
  [op |-> op, edge |-> edge, node |-> node, weight |-> weight, ret |-> ret, val |-> val]

NoCall == Call("none", <<>>, 0, 0, TRUE, 0)

\* `visit` holds the local state of a _bfs or _dfs call that is running step
\* by step: the queue of _bfs, the stack of the compute_dfs calls that are
\* inside their for loop, visited, and done once the call has returned;
\* kind is "none" when no traversal was started
NoVisit ==
  [kind |-> "none", max_depth |-> <<>>, order |-> <<>>, size |-> <<>>,
   queue |-> <<>>, stack |-> <<>>, visited |-> {}, done |-> FALSE]

Init ==
  /\ weighted \in BOOLEAN
  /\ incidence_list = <<>>
  /\ edge_list = <<>>
  /\ last = NoCall
  /\ old = new(weighted)
  /\ visit = NoVisit

\* the call leaves the hypergraph hg; the edge table is kept within MaxEdges
Assign(hg) ==
  /\ last = NoCall
  /\ num_edges(hg) <= MaxEdges
  /\ weighted' = hg.weighted
  /\ incidence_list' = hg.incidence_list
  /\ edge_list' = hg.edge_list
  /\ visit' = visit

Becomes(hg, call) ==
  /\ Assign(hg)
  /\ \/ last' = call /\ old' = self
     \/ UNCHANGED <<last, old>>

AddNode ==
  \E node \in Node :
    LET r == add_node(self, node)
    IN Becomes(r.hg, Call("add_node", <<>>, node, 0, r.ret, 0))

AddEdge ==
  \E edge \in Edges :
    LET r == add_edge(self, edge)
    IN Becomes(r.hg, Call("add_edge", edge, 0, 0, r.ret, 0))

AddEdgeWeighted ==
  \E edge \in Edges, weight \in Weight :
    LET r == add_edge_weighted(self, edge, weight)
    IN Becomes(r.hg, Call("add_edge_weighted", edge, 0, weight, r.ret, 0))

RemoveEdge ==
  \E edge \in Edges :
    LET r == remove_edge(self, edge)
    IN Becomes(r.hg, Call("remove_edge", edge, 0, 0, r.ret, 0))

RemoveNode ==
  \E node \in Node :
    \E r \in remove_node_results(self, node) :
      Becomes(r.hg, Call("remove_node", <<>>, node, 0, r.ret, 0))

StrongRemoveNode ==
  \E node \in Node :
    LET r == strong_remove_node(self, node)
    IN Becomes(r.hg, Call("strong_remove_node", <<>>, node, 0, r.ret, 0))

SetWeight ==
  \E edge \in Edges, weight \in Weight :
    LET r == set_weight(self, edge, weight)
    IN Becomes(r.hg, Call("set_weight", edge, 0, weight, r.ok, r.val))

Clear ==
  Becomes(clear(self), Call("clear", <<>>, 0, 0, TRUE, 0))

\* an observed call of a method that takes &self: the hypergraph stays
Query(op, node, order, size, arg, ret) ==
  [op |-> op, node |-> node, order |-> order, size |-> size, arg |-> arg, ret |-> ret]

Observed(call) ==
  /\ last = NoCall
  /\ last' = call
  /\ old' = self
  /\ UNCHANGED <<weighted, incidence_list, edge_list, visit>>

\* the node lists the operations on lists of nodes are called with
NodeLists == SeqsUpTo(Node, MaxBatch)

Subhypergraph ==
  /\ last = NoCall
  /\ \E nodes \in NodeLists :
       \E r \in subhypergraph(self, nodes) :
         Observed(Query("subhypergraph", 0, None, None, nodes, r))

Next ==
  \/ AddNode
  \/ AddEdge
  \/ AddEdgeWeighted
  \/ RemoveEdge
  \/ RemoveNode
  \/ StrongRemoveNode
  \/ SetWeight
  \/ Clear
  \/ Subhypergraph

Spec == Init /\ [][Next]_vars

\* ------------------------------------------------ the batch operations
\* the lists the batch operations are called with
EdgeLists == SeqsUpTo(Edges, MaxBatch)
WeightLists == SeqsUpTo(Weight, MaxBatch)

AddNodes ==
  \E nodes \in NodeLists :
    Assign(add_nodes(self, nodes).hg) /\ UNCHANGED <<last, old>>

AddEdges ==
  \E edges \in EdgeLists :
    Assign(add_edges(self, edges).hg) /\ UNCHANGED <<last, old>>

AddEdgesWeighted ==
  \E edges \in EdgeLists, weights \in WeightLists :
    Assign(add_edges_weighted(self, edges, weights).hg) /\ UNCHANGED <<last, old>>

RemoveEdges ==
  \E edges \in EdgeLists :
    Assign(remove_edges(self, edges).hg) /\ UNCHANGED <<last, old>>

RemoveNodes ==
  \E nodes \in NodeLists :
    \E hg \in remove_nodes(self, nodes) :
      Assign(hg) /\ UNCHANGED <<last, old>>

StrongRemoveNodes ==
  \E nodes \in NodeLists :
    Assign(strong_remove_nodes(self, nodes)) /\ UNCHANGED <<last, old>>

NextBatch ==
  \/ Next
  \/ AddNodes
  \/ AddEdges
  \/ AddEdgesWeighted
  \/ RemoveEdges
  \/ RemoveNodes
  \/ StrongRemoveNodes

SpecBatch == Init /\ [][NextBatch]_vars

\* ------------------------------------------------------------ properties
\* the ids of the edges of hg whose node sequence contains node
EdgesWith(hg, node) == {id \in DOMAIN hg.edge_list : node \in Range(hg.edge_list[id].nodes)}

\* the node sequences stored in hg
Stored(hg) == {hg.edge_list[id].nodes : id \in DOMAIN hg.edge_list}

\* the weights of the edges of hg whose node sequence is nodes
WeightsOf(hg, nodes) ==
  {hg.edge_list[id].weight : id \in {i \in DOMAIN hg.edge_list : hg.edge_list[i].nodes = nodes}}

Strip(nodes, node) == SelectSeq(nodes, LAMBDA x : x # node)

\* C1: after any sequence of public mutations, single or batch, the two
\* indexes agree: every id in incidence_list[n] is a key of edge_list whose
\* node sequence contains n, and every node of every stored edge has an
\* incidence entry that contains the id of the edge.
C1_IndexesAgree ==
  /\ \A n \in DOMAIN incidence_list : \A id \in incidence_list[n] :
       id \in DOMAIN edge_list /\ n \in Range(edge_list[id].nodes)
  /\ \A id \in DOMAIN edge_list : \A n \in Range(edge_list[id].nodes) :
       n \in DOMAIN incidence_list /\ id \in incidence_list[n]

\* a weak node removal has acted and left edges and nodes that refer to each other
C1_Witness ==
  /\ last.op = "remove_node" /\ last.ret
  /\ \E n \in DOMAIN incidence_list : Cardinality(incidence_list[n]) = 2

\* C2: in a hypergraph created with weighted = false every stored edge has
\* weight 0 after any sequence of public operations.
C2_UnweightedZero ==
  ~weighted => \A id \in DOMAIN edge_list : edge_list[id].weight = 0

\* C3: right after add_edge(e) or add_edge_weighted(e, w), check_edge(e) is
\* true; right after remove_edge(e), check_edge(e) is false.
C3_AddThenCheck ==
  /\ last.op \in {"add_edge", "add_edge_weighted"} => check_edge(self, last.edge)
  /\ last.op = "remove_edge" => ~check_edge(self, last.edge)

\* a stored edge has been removed while another edge stays
C3_Witness ==
  /\ last.op = "remove_edge" /\ last.edge \in Stored(old)
  /\ num_edges(self) > 0

\* C4 as stated: adding a stored sequence again leaves num_edges unchanged,
\* returns false, and the stored weight is the weight argument of the call.
C4_SecondAddWeightIsArgument ==
  (last.op \in {"add_edge", "add_edge_weighted"} /\ last.edge \in Stored(old)) =>
    /\ num_edges(self) = num_edges(old)
    /\ last.ret = FALSE
    /\ WeightsOf(self, last.edge) = {last.weight}

\* C4 amended: adding a stored sequence again leaves num_edges unchanged,
\* returns false, and the stored weight is the weight argument of the call
\* in a weighted hypergraph and 0 in an unweighted one.
C4_SecondAddWeightCoerced ==
  (last.op \in {"add_edge", "add_edge_weighted"} /\ last.edge \in Stored(old)) =>
    /\ num_edges(self) = num_edges(old)
    /\ last.ret = FALSE
    /\ WeightsOf(self, last.edge) = {IF weighted THEN last.weight ELSE 0}

\* a stored sequence is added again with a weight it did not have
C4_Witness ==
  /\ last.op = "add_edge_weighted" /\ last.edge \in Stored(old)
  /\ weighted /\ last.weight \notin WeightsOf(old, last.edge)

\* C5: add_edge(e) on a sequence not stored returns true, inserts exactly one
\* record, with sequence e, creates the missing incidence entries of the
\* nodes of e and adds the new id to the incidence set of every node of e,
\* and changes nothing else; on a stored sequence it returns false and
\* changes nothing but the weight of that edge.
C5_AddEdgeEffect ==
  last.op = "add_edge" =>
    IF last.edge \notin Stored(old)
    THEN /\ last.ret = TRUE
         /\ \E id \in DOMAIN edge_list \ DOMAIN old.edge_list :
              /\ DOMAIN edge_list = DOMAIN old.edge_list \cup {id}
              /\ edge_list[id].nodes = last.edge
              /\ \A other \in DOMAIN old.edge_list : edge_list[other] = old.edge_list[other]
              /\ DOMAIN incidence_list = DOMAIN old.incidence_list \cup Range(last.edge)
              /\ \A n \in DOMAIN incidence_list :
                   incidence_list[n] =
                     (IF n \in DOMAIN old.incidence_list THEN old.incidence_list[n] ELSE {})
                     \cup (IF n \in Range(last.edge) THEN {id} ELSE {})
    ELSE /\ last.ret = FALSE
         /\ incidence_list = old.incidence_list
         /\ DOMAIN edge_list = DOMAIN old.edge_list
         /\ \A id \in DOMAIN edge_list :
              /\ edge_list[id].nodes = old.edge_list[id].nodes
              /\ edge_list[id].nodes # last.edge => edge_list[id].weight = old.edge_list[id].weight

\* a new edge is added that creates a node and joins a node that has an edge
C5_Witness ==
  /\ last.op = "add_edge" /\ last.edge \notin Stored(old)
  /\ \E n \in Range(last.edge) : n \notin DOMAIN old.incidence_list
  /\ \E n \in Range(last.edge) : n \in DOMAIN old.incidence_list /\ old.incidence_list[n] # {}

\* C6 as stated: remove_node(v) on a present node returns true, removes the
\* incidence entry of v, and for every edge that contained v the original
\* sequence is no longer stored and the stripped sequence is stored with the
\* weight the original edge had.
C6_WeakRemovalKeepsWeight ==
  (last.op = "remove_node" /\ check_node(old, last.node)) =>
    /\ last.ret = TRUE
    /\ ~check_node(self, last.node)
    /\ \A id \in EdgesWith(old, last.node) :
         /\ old.edge_list[id].nodes \notin Stored(self)
         /\ WeightsOf(self, Strip(old.edge_list[id].nodes, last.node)) = {old.edge_list[id].weight}

\* C6 amended: ... the stripped sequence is stored, in a weighted hypergraph
\* with the weight of one of the edges containing v that strip to it (its
\* own weight when it is the only one), in an unweighted hypergraph with 0.
C6_WeakRemovalMergesWeight ==
  (last.op = "remove_node" /\ check_node(old, last.node)) =>
    /\ last.ret = TRUE
    /\ ~check_node(self, last.node)
    /\ \A id \in EdgesWith(old, last.node) :
         LET stripped == Strip(old.edge_list[id].nodes, last.node)
         IN /\ old.edge_list[id].nodes \notin Stored(self)
            /\ \E kept \in EdgesWith(old, last.node) :
                 /\ Strip(old.edge_list[kept].nodes, last.node) = stripped
                 /\ WeightsOf(self, stripped) =
                      {IF weighted THEN old.edge_list[kept].weight ELSE 0}

\* two edges of the removed node with different weights strip to one sequence
C6_Witness ==
  /\ last.op = "remove_node" /\ check_node(old, last.node) /\ weighted
  /\ \E a, b \in EdgesWith(old, last.node) :
       /\ a # b
       /\ Strip(old.edge_list[a].nodes, last.node) = Strip(old.edge_list[b].nodes, last.node)
       /\ old.edge_list[a].weight # old.edge_list[b].weight

\* C7: strong_remove_node(v) on a present node returns true, removes v from
\* the node set and deletes exactly the edges whose sequence contains v;
\* the other nodes stay and the other edges keep sequence and weight.
C7_StrongRemoval ==
  (last.op = "strong_remove_node" /\ check_node(old, last.node)) =>
    /\ last.ret = TRUE
    /\ DOMAIN incidence_list = DOMAIN old.incidence_list \ {last.node}
    /\ DOMAIN edge_list = DOMAIN old.edge_list \ EdgesWith(old, last.node)
    /\ \A id \in DOMAIN edge_list : edge_list[id] = old.edge_list[id]

\* a node with an edge is removed while an edge without it stays
C7_Witness ==
  /\ last.op = "strong_remove_node" /\ check_node(old, last.node)
  /\ EdgesWith(old, last.node) # {}
  /\ num_edges(self) > 0

\* C8: remove_edge(e) on a stored edge removes only that record and its id
\* from the incidence sets: the node set is unchanged and every other edge
\* keeps its sequence and weight.
C8_RemoveEdgeFrame ==
  (last.op = "remove_edge" /\ last.edge \in Stored(old)) =>
    /\ DOMAIN incidence_list = DOMAIN old.incidence_list
    /\ \E id \in DOMAIN old.edge_list :
         /\ old.edge_list[id].nodes = last.edge
         /\ DOMAIN edge_list = DOMAIN old.edge_list \ {id}
         /\ \A n \in DOMAIN incidence_list : incidence_list[n] = old.incidence_list[n] \ {id}
    /\ \A id \in DOMAIN edge_list : edge_list[id] = old.edge_list[id]

\* the only edge of a node is removed, and another edge stays
C8_Witness ==
  /\ last.op = "remove_edge" /\ last.edge \in Stored(old)
  /\ \E n \in Range(last.edge) : incidence_list[n] = {}
  /\ num_edges(self) > 0

\* C9: remove_edge on a sequence not stored, and remove_node and
\* strong_remove_node on a node not present, return false and leave
\* weighted, incidence_list and edge_list as they were.
C9_RemoveAbsent ==
  /\ (last.op = "remove_edge" /\ ~check_edge(old, last.edge)) =>
       last.ret = FALSE /\ self = old
  /\ (last.op \in {"remove_node", "strong_remove_node"} /\ ~check_node(old, last.node)) =>
       last.ret = FALSE /\ self = old

\* a sequence that is not stored is removed from a hypergraph with edges
C9_Witness ==
  /\ last.op = "remove_edge" /\ ~check_edge(old, last.edge)
  /\ num_edges(old) > 0

\* C10: set_weight(e, w) on a stored edge returns Ok with the weight the edge
\* had, and get_weight(e) then returns w; on a sequence not stored it returns
\* Err and leaves the hypergraph unchanged.
C10_SetWeight ==
  last.op = "set_weight" =>
    IF last.edge \in Stored(old)
    THEN /\ last.ret = TRUE
         /\ {last.val} = WeightsOf(old, last.edge)
         /\ get_weight(self, last.edge) = <<last.weight>>
    ELSE /\ last.ret = FALSE
         /\ self = old

\* the weight of a stored edge is changed
C10_Witness ==
  /\ last.op = "set_weight" /\ last.edge \in Stored(old)
  /\ last.weight \notin WeightsOf(old, last.edge)

\* ------------------------------------------------ construction from lists
\* the weight lists from_weighted is called with: shorter than, as long as
\* and longer than the edge list
AnyEdgeLists == SeqsUpTo(AnyEdges, MaxBatch)
FromWeightLists == SeqsUpTo(Weight, MaxBatch + 1)

CallFrom(op, edges, weights) == [op |-> op, edges |-> edges, weights |-> weights]

\* a behaviour constructs its hypergraph once, before any other call
Unconstructed == last = NoCall /\ incidence_list = <<>> /\ edge_list = <<>>

Constructed(hg, call) ==
  /\ last = NoCall
  /\ weighted' = hg.weighted
  /\ incidence_list' = hg.incidence_list
  /\ edge_list' = hg.edge_list
  /\ visit' = visit
  /\ \/ last' = call /\ old' = old
     \/ UNCHANGED <<last, old>>

From ==
  /\ Unconstructed
  /\ \E edges \in AnyEdgeLists :
       Constructed(from(edges), CallFrom("from", edges, <<>>))

FromWeighted ==
  /\ Unconstructed
  /\ \E edges \in AnyEdgeLists, weights \in FromWeightLists :
       Constructed(from_weighted(edges, weights), CallFrom("from_weighted", edges, weights))

NextFrom ==
  \/ From
  \/ FromWeighted

SpecFrom == Init /\ [][NextFrom]_vars

\* the positions of a list hold pairwise distinct values
Distinct(list) == \A i, j \in 1..Len(list) : list[i] = list[j] => i = j

\* the weight the documentation pairs with position i (from 1) of the edges
Paired(weights, i) == IF i <= Len(weights) THEN weights[i] ELSE 0

\* C11: from_weighted(edges, weights) with pairwise distinct edges gives the
\* i-th edge the weight weights[i] when there is one and 0 otherwise; with as
\* many weights as edges every edge receives its weight.
C11_FromWeightedPairs ==
  (last.op = "from_weighted" /\ Distinct(last.edges)) =>
    \A i \in 1..Len(last.edges) :
      WeightsOf(self, last.edges[i]) = {Paired(last.weights, i)}

\* C12: when the list given to from / from_weighted holds a sequence more
\* than once the result holds exactly one edge for it, and from_weighted
\* gives it the weight paired with its first occurrence.
C12_FirstOccurrenceWins ==
  (last.op \in {"from", "from_weighted"} /\ ~Distinct(last.edges)) =>
    \A i \in 1..Len(last.edges) :
      /\ Cardinality({id \in DOMAIN edge_list : edge_list[id].nodes = last.edges[i]}) = 1
      /\ (last.op = "from_weighted" /\ \A j \in 1..(i - 1) : last.edges[j] # last.edges[i]) =>
           WeightsOf(self, last.edges[i]) = {Paired(last.weights, i)}

\* ------------------------------------------------------------ the queries
\* A behaviour of SpecQuery constructs a hypergraph (from, from_weighted),
\* may add nodes to it, and ends with one observed query: `last` holds its
\* name, arguments and returned value.  The queries take &self.
Orders == {None} \cup {Some(k) : k \in 0..(MaxLen - 1)}
Sizes == {None} \cup {Some(k) : k \in 0..MaxLen}
Depths == {None} \cup {Some(k) : k \in 0..MaxDepth}
OrderLists == {None} \cup {Some(l) : l \in SeqsUpTo(0..(MaxLen - 1), MaxBatch)}
SizeLists == {None} \cup {Some(l) : l \in SeqsUpTo(1..MaxLen, MaxBatch)}

NumEdgesWith ==
  /\ last = NoCall
  /\ \E order \in Orders, size \in Sizes, up_to \in BOOLEAN :
       Observed(Query("num_edges_with", 0, order, size, up_to,
                      num_edges_with(self, order, size, up_to)))

GetWeightsWith ==
  /\ last = NoCall
  /\ \E order \in Orders, size \in Sizes, up_to \in BOOLEAN :
       \E r \in get_weights_with(self, order, size, up_to) :
         Observed(Query("get_weights_with", 0, order, size, up_to, r))

GetEdgesWith ==
  /\ last = NoCall
  /\ \E order \in Orders, size \in Sizes, up_to \in BOOLEAN :
       \E r \in get_edges_with(self, order, size, up_to) :
         Observed(Query("get_edges_with", 0, order, size, up_to, r))

GetNeighbors ==
  /\ last = NoCall
  /\ \E node \in AnyNode, order \in Orders, size \in Sizes :
       \E r \in get_neighbors(self, node, order, size) :
         Observed(Query("get_neighbors", node, order, size, FALSE, r))

GetIncidentEdges ==
  /\ last = NoCall
  /\ \E node \in AnyNode, order \in Orders, size \in Sizes :
       \E r \in get_incident_edges(self, node, order, size) :
         Observed(Query("get_incident_edges", node, order, size, FALSE, r))

IsIsolated ==
  /\ last = NoCall
  /\ \E node \in AnyNode, order \in Orders, size \in Sizes :
       Observed(Query("is_isolated", node, order, size, FALSE,
                      is_isolated(self, node, order, size)))

IsolatedNodes ==
  /\ last = NoCall
  /\ \E order \in Orders, size \in Sizes :
       \E r \in isolated_nodes(self, order, size) :
         Observed(Query("isolated_nodes", 0, order, size, FALSE, r))

Bfs ==
  /\ last = NoCall
  /\ \E start \in AnyNode, max_depth \in Depths, order \in Orders, size \in Sizes :
       \E r \in _bfs(self, start, max_depth, order, size) :
         Observed(Query("_bfs", start, order, size, max_depth, r))

Ccs ==
  /\ last = NoCall
  /\ \E order \in Orders, size \in Sizes :
       \E r \in ccs(self, order, size) :
         Observed(Query("ccs", 0, order, size, FALSE, r))

NodeCc ==
  /\ last = NoCall
  /\ \E node \in AnyNode, order \in Orders, size \in Sizes :
       \E r \in node_cc(self, node, order, size) :
         Observed(Query("node_cc", node, order, size, FALSE, r))

NumCcs ==
  /\ last = NoCall
  /\ \E order \in Orders, size \in Sizes :
       \E r \in num_ccs(self, order, size) :
         Observed(Query("num_ccs", 0, order, size, FALSE, r))

LargestCc ==
  /\ last = NoCall
  /\ \E order \in Orders, size \in Sizes :
       \E r \in largest_cc(self, order, size) :
         Observed(Query("largest_cc", 0, order, size, FALSE, r))

LargestCcSize ==
  /\ last = NoCall
  /\ \E order \in Orders, size \in Sizes :
       \E r \in largest_cc_size(self, order, size) :
         Observed(Query("largest_cc_size", 0, order, size, FALSE, r))

IsConnected ==
  /\ last = NoCall
  /\ \E order \in Orders, size \in Sizes :
       \E r \in is_connected(self, order, size) :
         Observed(Query("is_connected", 0, order, size, FALSE, r))

\* subhypergraph_by_orders as it would be if it filtered the hypergraph in place
SubhypergraphByOrdersInPlace ==
  /\ last = NoCall
  /\ \E orders \in OrderLists, sizes \in SizeLists, keep_nodes \in BOOLEAN :
       \E r \in subhypergraph_by_orders(self, orders, sizes, keep_nodes) :
         /\ last' = Query("subhypergraph_by_orders", 0, orders, sizes, keep_nodes, r)
         /\ old' = self
         /\ weighted' = weighted
         /\ visit' = visit
         /\ incidence_list' = IF r.ok THEN r.val.incidence_list ELSE incidence_list
         /\ edge_list' = IF r.ok THEN r.val.edge_list ELSE edge_list

SubhypergraphByOrders ==
  /\ last = NoCall
  /\ \E orders \in OrderLists, sizes \in SizeLists, keep_nodes \in BOOLEAN :
       \E r \in subhypergraph_by_orders(self, orders, sizes, keep_nodes) :
         Observed(Query("subhypergraph_by_orders", 0, orders, sizes, keep_nodes, r))

Dfs ==
  /\ last = NoCall
  /\ \E start \in AnyNode, max_depth \in Depths, order \in Orders, size \in Sizes :
       \E r \in _dfs(self, start, max_depth, order, size) :
         Observed(Query("_dfs", start, order, size, max_depth, r))

GetNumNodes ==
  /\ last = NoCall
  /\ Observed(Query("num_nodes", 0, None, None, FALSE, num_nodes(self)))

GetNumEdges ==
  /\ last = NoCall
  /\ Observed(Query("num_edges", 0, None, None, FALSE, num_edges(self)))

GetWeight ==
  /\ last = NoCall
  /\ \E edge \in AnyEdges :
       Observed(Query("get_weight", 0, None, None, edge, get_weight(self, edge)))

GetWeights ==
  /\ last = NoCall
  /\ \E r \in get_weights(self) :
       Observed(Query("get_weights", 0, None, None, FALSE, r))

GetOrders ==
  /\ last = NoCall
  /\ \E r \in get_orders(self) :
       Observed(Query("get_orders", 0, None, None, FALSE, r))

GetSizes ==
  /\ last = NoCall
  /\ \E r \in get_sizes(self) :
       Observed(Query("get_sizes", 0, None, None, FALSE, r))

GetNodes ==
  /\ last = NoCall
  /\ \E r \in get_nodes(self) :
       Observed(Query("get_nodes", 0, None, None, FALSE, r))

GetEdges ==
  /\ last = NoCall
  /\ \E r \in get_edges(self) :
       Observed(Query("get_edges", 0, None, None, FALSE, r))

CheckNode ==
  /\ last = NoCall
  /\ \E node \in AnyNode :
       Observed(Query("check_node", node, None, None, FALSE, check_node(self, node)))

CheckEdge ==
  /\ last = NoCall
  /\ \E edge \in AnyEdges :
       Observed(Query("check_edge", 0, None, None, edge, check_edge(self, edge)))

IsUniform ==
  /\ last = NoCall
  /\ Observed(Query("is_uniform", 0, None, None, FALSE, is_uniform(self)))

NextQuery ==
  \/ From
  \/ FromWeighted
  \/ AddNode
  \/ Subhypergraph
  \/ Dfs
  \/ GetNumNodes
  \/ GetNumEdges
  \/ GetWeight
  \/ GetWeights
  \/ GetOrders
  \/ GetSizes
  \/ GetNodes
  \/ GetEdges
  \/ CheckNode
  \/ CheckEdge
  \/ IsUniform
  \/ NumEdgesWith
  \/ GetWeightsWith
  \/ GetEdgesWith
  \/ GetNeighbors
  \/ GetIncidentEdges
  \/ IsIsolated
  \/ IsolatedNodes
  \/ Bfs
  \/ Ccs
  \/ NodeCc
  \/ NumCcs
  \/ LargestCc
  \/ LargestCcSize
  \/ IsConnected
  \/ SubhypergraphByOrders

SpecQuery == Init /\ [][NextQuery]_vars

\* ------------------------------------------------- properties of the queries
FilteredQueries ==
  {"num_edges_with", "get_weights_with", "get_edges_with", "get_neighbors",
   "get_incident_edges", "is_isolated", "isolated_nodes", "ccs", "node_cc", "num_ccs",
   "largest_cc", "largest_cc_size", "is_connected", "subhypergraph_by_orders"}

NeedFilter ==
  {"num_edges_with", "get_weights_with", "get_edges_with", "subhypergraph_by_orders"}

\* the nodes that occur in the stored edges of hg
EdgeNodes(hg) == UNION {Range(hg.edge_list[id].nodes) : id \in DOMAIN hg.edge_list}

\* a node sequence passes the filter: any without a filter, those of order
\* `order` (order + 1 nodes) or of size `size` with one
Passes(nodes, order, size) ==
  /\ order # None => Len(nodes) = order[1] + 1
  /\ size # None => Len(nodes) = size[1]

\* the nodes u # v that occur together with v in a stored edge that passes
Together(hg, v, order, size) ==
  {u \in EdgeNodes(hg) \ {v} :
     \E id \in DOMAIN hg.edge_list :
       /\ v \in Range(hg.edge_list[id].nodes)
       /\ u \in Range(hg.edge_list[id].nodes)
       /\ Passes(hg.edge_list[id].nodes, order, size)}

\* the nodes within k steps of the nodes of S in the relation Together
RECURSIVE Within(_, _, _, _, _)
Within(hg, S, k, order, size) ==
  IF k = 0 THEN S
  ELSE Within(hg, S \cup UNION {Together(hg, u, order, size) : u \in S}, k - 1, order, size)

\* C13: every filtered query returns Err when both order and size (orders
\* and sizes) are supplied, whatever the hypergraph and whether or not the
\* queried node exists, and the hypergraph is unchanged.
C13_BothFiltersErr ==
  (last.op \in FilteredQueries /\ last.order # None /\ last.size # None) =>
    ~last.ret.ok /\ self = old

\* get_neighbors was called with both filters on a node that does not exist
C13_Witness ==
  /\ last.op = "get_neighbors" /\ last.order # None /\ last.size # None
  /\ last.node \notin DOMAIN incidence_list
  /\ edge_list # <<>>

\* C14: num_edges_with, get_weights_with, get_edges_with and
\* subhypergraph_by_orders return Err when neither filter is supplied, and
\* Ok exactly when one and only one of the two is supplied.
C14_ExactlyOneFilterOk ==
  last.op \in NeedFilter =>
    (last.ret.ok <=> ((last.order = None) # (last.size = None)))

\* num_edges_with was called without a filter on a hypergraph with edges
C14_Witness ==
  /\ last.op = "num_edges_with" /\ last.order = None /\ last.size = None
  /\ num_edges(self) > 0

\* C15: get_neighbors(v, order, size) with at most one filter returns
\* Ok(None) iff v is not a node; otherwise it returns, without repetitions,
\* exactly the nodes u # v that occur together with v in a stored edge whose
\* size equals the filter (any size without a filter).
C15_Neighbors ==
  (last.op = "get_neighbors" /\ (last.order = None \/ last.size = None)) =>
    /\ last.ret.ok
    /\ last.ret.val = None <=> last.node \notin DOMAIN incidence_list
    /\ last.ret.val # None =>
         /\ Distinct(last.ret.val[1])
         /\ Range(last.ret.val[1]) = Together(self, last.node, last.order, last.size)

\* get_neighbors returned a neighbour of a node that also has an incident
\* edge of another size than the filter
C15_Witness ==
  /\ last.op = "get_neighbors" /\ last.order = None /\ last.size # None
  /\ last.ret.ok /\ last.ret.val # None /\ last.ret.val[1] # <<>>
  /\ \E id \in incidence_list[last.node] : Len(edge_list[id].nodes) # last.size[1]

\* C16: is_isolated(v, order, size) returns Ok(None) iff v is absent; for a
\* present v it returns Some(true) exactly when get_neighbors with the same
\* filter is empty, so edges that consist solely of v do not break isolation.
C16_IsolatedIffNoNeighbors ==
  (last.op = "is_isolated" /\ (last.order = None \/ last.size = None)) =>
    /\ last.ret.ok
    /\ last.ret.val = None <=> last.node \notin DOMAIN incidence_list
    /\ last.ret.val # None =>
         (last.ret.val[1] <=>
            \A r \in get_neighbors(self, last.node, last.order, last.size) : r.val[1] = <<>>)

\* C17: _bfs with at most one filter returns the empty set iff start is not
\* a node; otherwise exactly the nodes at distance at most max_depth from
\* start in the filtered neighbour relation (all reachable nodes when
\* max_depth is None), start included.
C17_BfsWithinDepth ==
  (last.op = "_bfs" /\ (last.order = None \/ last.size = None)) =>
    /\ last.ret = {} <=> last.node \notin DOMAIN incidence_list
    /\ last.node \in DOMAIN incidence_list =>
         last.ret = Within(self, {last.node},
                           IF last.arg = None THEN num_nodes(self) ELSE last.arg[1],
                           last.order, last.size)

\* _bfs with max_depth 1 stopped before a node at distance 2
C17_Witness ==
  /\ last.op = "_bfs" /\ last.arg = Some(1) /\ last.order = None /\ last.size = Some(2)
  /\ Cardinality(last.ret) = 2
  /\ Cardinality(Within(self, {last.node}, 2, None, Some(2))) = 3

\* C18: the node sets returned by ccs(None, None) are non-empty, pairwise
\* disjoint and their union is the node set; an empty hypergraph yields an
\* empty list.
C18_ComponentsPartition ==
  (last.op = "ccs" /\ last.order = None /\ last.size = None) =>
    /\ last.ret.ok
    /\ \A i \in 1..Len(last.ret.val) : last.ret.val[i] # {}
    /\ \A i, j \in 1..Len(last.ret.val) :
         i # j => last.ret.val[i] \cap last.ret.val[j] = {}
    /\ UNION Range(last.ret.val) = DOMAIN incidence_list
    /\ num_nodes(self) = 0 => last.ret.val = <<>>

\* ccs returned two components, one of them of two nodes
C18_Witness ==
  /\ last.op = "ccs" /\ last.order = None /\ last.size = None
  /\ Len(last.ret.val) = 2
  /\ \E i \in 1..2 : Cardinality(last.ret.val[i]) = 2

\* C19: ccs(order, size) with one filter considers only the edges of that
\* order or size: for every node v the component of ccs(order, size) that
\* contains v equals node_cc(v, order, size).
C19_FilteredComponents ==
  (last.op = "ccs" /\ ((last.order = None) # (last.size = None))) =>
    /\ last.ret.ok
    /\ \A v \in DOMAIN incidence_list :
         /\ \E i \in 1..Len(last.ret.val) : v \in last.ret.val[i]
         /\ \A i \in 1..Len(last.ret.val) :
              v \in last.ret.val[i] =>
                \A r \in node_cc(self, v, last.order, last.size) : r.val = last.ret.val[i]

\* C20: subhypergraph(nodes) returns a hypergraph with the same weighted
\* flag, whose nodes are exactly the given nodes and whose edges are exactly
\* the original edges whose nodes are all among the given ones, each with
\* its original weight; the original is unchanged; with all the nodes of the
\* original it reproduces the original nodes and edges.
C20_Subhypergraph ==
  last.op = "subhypergraph" =>
    LET res == last.ret
        given == Range(last.arg)
    IN /\ res.weighted = weighted
       /\ DOMAIN res.incidence_list = given
       /\ {res.edge_list[id] : id \in DOMAIN res.edge_list} =
            {edge_list[id] : id \in {i \in DOMAIN edge_list :
                                       Range(edge_list[i].nodes) \subseteq given}}
       /\ self = old
       /\ given = DOMAIN incidence_list =>
            /\ DOMAIN res.incidence_list = DOMAIN incidence_list
            /\ {res.edge_list[id] : id \in DOMAIN res.edge_list} =
                 {edge_list[id] : id \in DOMAIN edge_list}

\* ------------------------------------------ subhypergraphs after mutations
\* the mutations of Next followed by one observed subhypergraph_by_orders
NextSub ==
  \/ Next
  \/ SubhypergraphByOrders

SpecSub == Init /\ [][NextSub]_vars

\* the sizes a filter list lets through: order k stands for size k + 1
SizesOf(orders, sizes) ==
  IF orders # None THEN {k + 1 : k \in Range(orders[1])} ELSE Range(sizes[1])

\* C21: subhypergraph_by_orders with exactly one filter list returns a
\* hypergraph whose edges are exactly the original edges whose size is in
\* the filter (order k meaning size k + 1), with their weights; all original
\* nodes are present when keep_nodes is true, and otherwise only the nodes
\* of the copied edges are.
C21_SubhypergraphByOrders ==
  (last.op = "subhypergraph_by_orders" /\ ((last.order = None) # (last.size = None))) =>
    LET res == last.ret.val
        kept == {id \in DOMAIN edge_list :
                   Len(edge_list[id].nodes) \in SizesOf(last.order, last.size)}
    IN /\ last.ret.ok
       /\ {res.edge_list[id] : id \in DOMAIN res.edge_list} = {edge_list[id] : id \in kept}
       /\ last.arg => DOMAIN incidence_list \subseteq DOMAIN res.incidence_list
       /\ ~last.arg =>
            DOMAIN res.incidence_list = UNION {Range(edge_list[id].nodes) : id \in kept}

\* ------------------------------------------------------- further properties
ReadOnly ==
  FilteredQueries \cup
  {"num_nodes", "num_edges", "get_weight", "get_weights", "get_orders", "get_sizes",
   "get_nodes", "get_edges", "check_node", "check_edge", "is_uniform", "_bfs", "_dfs",
   "subhypergraph"}

C23_Clear ==
  last.op = "clear" =>
    /\ num_nodes(self) = 0
    /\ num_edges(self) = 0
    /\ weighted = old.weighted
    /\ self = new(old.weighted)

\* clear was called on a hypergraph with nodes and edges
C23_Witness ==
  last.op = "clear" /\ num_nodes(old) > 0 /\ num_edges(old) > 0

\* the values the filtered query op can return on hg for the given arguments
Returns(hg, op, node, order, size, arg) ==
  CASE op = "num_edges_with" -> {num_edges_with(hg, order, size, arg)}
    [] op = "get_weights_with" -> get_weights_with(hg, order, size, arg)
    [] op = "get_edges_with" -> get_edges_with(hg, order, size, arg)
    [] op = "get_neighbors" -> get_neighbors(hg, node, order, size)
    [] op = "get_incident_edges" -> get_incident_edges(hg, node, order, size)
    [] op = "is_isolated" -> {is_isolated(hg, node, order, size)}
    [] op = "node_cc" -> node_cc(hg, node, order, size)
    [] op = "_bfs" -> _bfs(hg, node, arg, order, size)
    [] op = "_dfs" -> _dfs(hg, node, arg, order, size)
    [] op = "subhypergraph_by_orders" -> subhypergraph_by_orders(hg, order, size, arg)

ByOrderOrSize ==
  {"num_edges_with", "get_weights_with", "get_edges_with", "get_neighbors",
   "get_incident_edges", "is_isolated", "node_cc", "_bfs", "_dfs", "subhypergraph_by_orders"}

\* the filter argument f (Some(k), or Some(list) for subhypergraph_by_orders)
\* with every number in it moved by d
Shifted(op, f, d) ==
  IF op = "subhypergraph_by_orders"
  THEN Some([i \in 1..Len(f[1]) |-> f[1][i] + d])
  ELSE Some(f[1] + d)

\* the numbers in the filter argument f
Numbers(op, f) == IF op = "subhypergraph_by_orders" THEN Range(f[1]) ELSE {f[1]}

\* C26: order and size are the same filter shifted by one: each filtered
\* query called with order = Some(k) and size = None returns what the same
\* query returns with order = None and size = Some(k + 1), and conversely.
C26_OrderIsSizeMinusOne ==
  last.op \in ByOrderOrSize =>
    /\ (last.order # None /\ last.size = None) =>
         last.ret \in Returns(self, last.op, last.node, None,
                              Shifted(last.op, last.order, 1), last.arg)
    /\ (last.order = None /\ last.size # None
          /\ \A k \in Numbers(last.op, last.size) : k >= 1) =>
         last.ret \in Returns(self, last.op, last.node,
                              Shifted(last.op, last.size, -1), None, last.arg)

\* get_neighbors was called with order 1 and returned a neighbour
C26_Witness ==
  /\ last.op = "get_neighbors" /\ last.order = Some(1) /\ last.size = None
  /\ last.ret.val # None /\ last.ret.val[1] # <<>>

\* C27: with max_depth None, _dfs and _bfs return the same set for every
\* hypergraph, start node and single or absent filter: the nodes reachable
\* from start through the filtered neighbour relation.
C27_DfsIsBfs ==
  (last.op \in {"_bfs", "_dfs"} /\ last.arg = None /\ (last.order = None \/ last.size = None)) =>
    /\ last.ret = IF last.node \in DOMAIN incidence_list
                  THEN Within(self, {last.node}, num_nodes(self), last.order, last.size)
                  ELSE {}
    /\ \A r \in _bfs(self, last.node, None, last.order, last.size)
                  \cup _dfs(self, last.node, None, last.order, last.size) : r = last.ret

\* _dfs without depth bound reached a node two steps away through edges of
\* the filtered size
C27_Witness ==
  /\ last.op = "_dfs" /\ last.arg = None /\ last.order = None /\ last.size = Some(2)
  /\ Cardinality(last.ret) = 3
  /\ Cardinality(Together(self, last.node, None, Some(2))) = 1

\* C28: the hypergraph after remove_node(v) is determined by the hypergraph
\* before and v: it is the same for every order in which the edge ids of
\* v's incidence set are processed.
C28_RemoveNodeDetermined ==
  last.op = "remove_node" =>
    \A r \in remove_node_results(old, last.node) : r.hg = self

\* C29: _bfs and _dfs called with both order and size on a present start
\* node return {start}, for every max_depth, and the empty set when start
\* is absent.
C29_BothFiltersVisitStart ==
  (last.op \in {"_bfs", "_dfs"} /\ last.order # None /\ last.size # None) =>
    last.ret = IF last.node \in DOMAIN incidence_list THEN {last.node} ELSE {}

\* _dfs was called with both filters, without depth bound, on a node that
\* has a neighbour through an edge of the order given
C29_Witness ==
  /\ last.op = "_dfs" /\ last.order # None /\ last.size # None /\ last.arg = None
  /\ last.node \in DOMAIN incidence_list
  /\ Together(self, last.node, last.order, None) # {}

\* C30: remove_node(v) re-inserts an incident edge that consists only of
\* occurrences of v as the edge with the empty node sequence: afterwards
\* check_edge of the empty sequence is true, the edge is counted by
\* num_edges and it is in no node's incidence set.
C30_EmptyEdgeKept ==
  (/\ last.op = "remove_node" /\ last.ret
   /\ \E id \in old.incidence_list[last.node] :
        Range(old.edge_list[id].nodes) = {last.node}) =>
    /\ check_edge(self, <<>>)
    /\ {id \in DOMAIN edge_list : edge_list[id].nodes = <<>>} = {compute_edge_id(<<>>)}
    /\ num_edges(self) = Cardinality(DOMAIN edge_list \ {compute_edge_id(<<>>)}) + 1
    /\ \A n \in DOMAIN incidence_list : compute_edge_id(<<>>) \notin incidence_list[n]

\* remove_node(v) was called with an edge of two occurrences of v and no
\* empty edge stored
C30_Witness ==
  /\ last.op = "remove_node" /\ last.ret
  /\ ~check_edge(old, <<>>)
  /\ check_edge(old, <<last.node, last.node>>)

\* ------------------------------------------------------------ the traversals
\* A behaviour of SpecVisit constructs a hypergraph of up to NumVisitNodes
\* nodes with Hypergraph::from and ends with one observed _bfs or _dfs.
VisitEdgeLists == SeqsUpTo(VisitEdges, MaxBatch)

FromWide ==
  /\ Unconstructed
  /\ \E edges \in VisitEdgeLists :
       Constructed(from(edges), CallFrom("from", edges, <<>>))

NextVisit ==
  \/ FromWide
  \/ Bfs
  \/ Dfs

SpecVisit == Init /\ [][NextVisit]_vars

\* C25: the set returned by _bfs and by _dfs is the same for every order in
\* which the neighbours of a node are iterated, for every hypergraph, start
\* node, filter and max_depth, a finite max_depth included.
C25_VisitOrderIndependent ==
  last.op \in {"_bfs", "_dfs"} =>
    \A r \in Returns(self, last.op, last.node, last.order, last.size, last.arg) : r = last.ret

\* ------------------------------------------------- the traversals, by step
\* A behaviour of SpecSteps constructs a hypergraph with Hypergraph::from,
\* starts one _bfs or one _dfs and runs it one loop iteration at a time.

\* one iteration of the while loop of _bfs as it would be if it read the
\* front of the queue and left it there
bfs_step_keeps_front(hg, v) ==
  IF v.queue = <<>> THEN {[v EXCEPT !.done = TRUE]}
  ELSE LET now == Head(v.queue)[1]
           depth == Head(v.queue)[2]
       IN IF v.max_depth = None \/ depth < v.max_depth[1]
          THEN {IF r.ok /\ r.val # None
                THEN LET p == bfs_push(v.queue, v.visited, r.val[1], depth, 1)
                     IN [v EXCEPT !.queue = p.queue, !.visited = p.visited]
                ELSE v :
                  r \in get_neighbors(hg, now, v.order, v.size)}
          ELSE {v}

\* one iteration of the while loop of _bfs: pop_front fails and the call
\* returns, or the popped node is expanded
bfs_step(hg, v) ==
  IF v.queue = <<>> THEN {[v EXCEPT !.done = TRUE]}
  ELSE LET now == Head(v.queue)[1]
           depth == Head(v.queue)[2]
           rest == Tail(v.queue)
       IN IF v.max_depth = None \/ depth < v.max_depth[1]
          THEN {IF r.ok /\ r.val # None
                THEN LET p == bfs_push(rest, v.visited, r.val[1], depth, 1)
                     IN [v EXCEPT !.queue = p.queue, !.visited = p.visited]
                ELSE [v EXCEPT !.queue = rest] :
                  r \in get_neighbors(hg, now, v.order, v.size)}
          ELSE {[v EXCEPT !.queue = rest]}

\* a call compute_dfs(node, depth) up to its for loop: it returns at once, or
\* it marks node and returns, or it marks node and enters the loop over
\* neighbors (a new frame on the stack, i the next neighbour to take)
dfs_call(hg, v, node, depth) ==
  IF node \in v.visited THEN {v}
  ELSE LET marked == [v EXCEPT !.visited = @ \cup {node}]
       IN IF v.max_depth = None \/ depth < v.max_depth[1]
          THEN {IF r.ok /\ r.val # None
                THEN [marked EXCEPT !.stack =
                        Append(@, [neighbors |-> r.val[1], i |-> 1, depth |-> depth])]
                ELSE marked :
                  r \in get_neighbors(hg, node, v.order, v.size)}
          ELSE {marked}

\* one iteration of the for loop of the innermost compute_dfs call: the loop
\* is over and the call returns, or it calls compute_dfs on the next
\* neighbour; with no call left, _dfs returns
dfs_step(hg, v) ==
  IF v.stack = <<>> THEN {[v EXCEPT !.done = TRUE]}
  ELSE LET n == Len(v.stack)
           top == v.stack[n]
       IN IF top.i > Len(top.neighbors)
          THEN {[v EXCEPT !.stack = SubSeq(@, 1, n - 1)]}
          ELSE dfs_call(hg, [v EXCEPT !.stack[n].i = top.i + 1],
                        top.neighbors[top.i], top.depth + 1)

StepEdgeLists == SeqsUpTo(AnyEdges, MaxStepEdges)

Visit(kind, max_depth, order, size) ==
  [kind |-> kind, max_depth |-> max_depth, order |-> order, size |-> size,
   queue |-> <<>>, stack |-> <<>>, visited |-> {}, done |-> FALSE]

FromSteps ==
  /\ Unconstructed
  /\ visit = NoVisit
  /\ \E edges \in StepEdgeLists :
       Constructed(from(edges), CallFrom("from", edges, <<>>))

StartBfs ==
  /\ last = NoCall
  /\ visit = NoVisit
  /\ \E start \in AnyNode, max_depth \in Depths, order \in Orders, size \in Sizes :
       LET v == Visit("bfs", max_depth, order, size)
       IN visit' = IF check_node(self, start)
                   THEN [v EXCEPT !.queue = <<<<start, 0>>>>, !.visited = {start}]
                   ELSE [v EXCEPT !.done = TRUE]
  /\ UNCHANGED <<weighted, incidence_list, edge_list, last, old>>

BfsStep ==
  /\ visit.kind = "bfs"
  /\ ~visit.done
  /\ visit' \in bfs_step(self, visit)
  /\ UNCHANGED <<weighted, incidence_list, edge_list, last, old>>

StartDfs ==
  /\ last = NoCall
  /\ visit = NoVisit
  /\ \E start \in AnyNode, max_depth \in Depths, order \in Orders, size \in Sizes :
       LET v == Visit("dfs", max_depth, order, size)
       IN visit' \in IF check_node(self, start)
                     THEN dfs_call(self, v, start, 0)
                     ELSE {[v EXCEPT !.done = TRUE]}
  /\ UNCHANGED <<weighted, incidence_list, edge_list, last, old>>

DfsStep ==
  /\ visit.kind = "dfs"
  /\ ~visit.done
  /\ visit' \in dfs_step(self, visit)
  /\ UNCHANGED <<weighted, incidence_list, edge_list, last, old>>

NextSteps ==
  \/ FromSteps
  \/ StartBfs
  \/ BfsStep
  \/ StartDfs
  \/ DfsStep

\* a call that has started keeps executing: the loops contain no blocking
\* operation, so a step that is possible is eventually taken
SpecSteps ==
  Init /\ [][NextSteps]_vars /\ WF_vars(BfsStep) /\ WF_vars(DfsStep)

\* C24: _bfs and _dfs terminate on every finite hypergraph, cycles included,
\* for every start node, depth bound and filter: a call that has started
\* eventually returns (the queue of _bfs empties, the recursion of _dfs
\* unwinds).
C24_VisitsTerminate ==
  visit.kind \in {"bfs", "dfs"} ~> visit.done

\* a traversal without depth bound and without filter has returned after
\* going round the cycle 1 - 2 - 3 - 1
C24_Witness ==
  /\ visit.done
  /\ visit.max_depth = None /\ visit.order = None /\ visit.size = None
  /\ visit.visited = {1, 2, 3}
  /\ Cardinality(DOMAIN edge_list) = 3
  /\ \A e \in DOMAIN edge_list : Cardinality(Range(edge_list[e].nodes)) = 2
====
